---- MODULE Spec2Model ----
(***************************************************************************)
(* Governance workflow engine of ProjectReviewRepository: the document     *)
(* version lifecycle, approval steps, segregation-of-duties guards and the *)
(* approval tasks, as implemented by the three document routers of the     *)
(* backend (app/api/v1/documents.py, app/api/documents.py and              *)
(* app/routers/documents.py), which all work on the same tables, and the   *)
(* RACI matrix of the project with the tasks generated from it             *)
(* (app/routers/projects.py, app/api/tasks.py).                            *)
(*                                                                         *)
(* One project and one document are modelled.  Rows of a table are the     *)
(* elements of a sequence; the primary key of a row is its index.          *)
(***************************************************************************)
EXTENDS Integers, Sequences, FiniteSets, TLC

VARIABLES
    now,        \* the clock read by datetime.utcnow()
    document,   \* the Document row: doc_type and current_version_id
    versions,   \* table document_versions
    approvals,  \* table approvals
    tasks,      \* table tasks
    comments,   \* table review_comments, as a set of <<version id, user id>>
    members,    \* table project_members: user id -> membership row, for the members
    project,    \* the Project row: raci_matrix_json
    txn,        \* requests in flight: the rows a handler has read so far
    last        \* the last request handled and its outcome

vars == <<now, document, versions, approvals, tasks, comments, members, project, txn,
         last>>

----------------------------------------------------------------------------
(* Bounds of the model *)

MaxTime == 1
MaxVersions == 1
MaxApprovals == 2

----------------------------------------------------------------------------
(* Values *)

None == "None"      \* a null string column
Null == {}          \* a null timestamp or id column; {x} is the value x
At(x) == {x}

Users == {"u1", "u2", "u3", "u4", "u5"}
Authors == {"u1"}             \* the users who create and submit versions
Reviewers == {"u2"}           \* the users who leave review comments
Procs == {"p1", "p2"}

\* app/core/enums.py
RoleCode == {"ORG_ADMIN", "Business Owner", "Architect", "QA Officer",
             "Release Manager", "SME", "Auditor"}
DocumentState == {"DRAFT", "IN_REVIEW", "APPROVED", "RELEASED", "ARCHIVED"}
ApprovalStatus == {"PENDING", "APPROVED", "REJECTED"}
TaskStatus == {"OPEN", "IN_PROGRESS", "COMPLETED", "VERIFIED", "CLOSED", "BLOCKED"}

DocTypes == {"PDD", "SDD"}
\* a document type whose policy is a single required step
OneStepDocType == "TEST_PLAN"
Templates == {"T1"}
NoContent == "{}"
Contents == {NoContent, "c1"}

\* outcomes of a request
OK == "ok"
InvalidTransition == "InvalidTransition"      \* HTTP 400 on a wrong version state
PermissionDenied == "PermissionDenied"        \* HTTP 403
AlreadySubmitted == "AlreadySubmitted"
BadRequest == "BadRequest"                    \* any other HTTP 400

ApproveComment == "approved"
RejectComment == "rejected"
UniqueIds == {"a1", "b2"}     \* values of str(uuid.uuid4())[:8]
EvidenceHash == "sha256"

Range(s) == {s[i] : i \in 1..Len(s)}
VersionIds == 1..Len(versions)
Idle == [op |-> "idle"]

----------------------------------------------------------------------------
(* Rows *)

Version(user, template, content) ==
    [state |-> "DRAFT", template_id |-> template, content_json |-> content,
     file_object_key |-> None, file_hash |-> Null, created_by |-> user,
     submitted_at |-> Null, locked_at |-> Null]

Approval(v, step) ==
    [document_version_id |-> v, step_no |-> step.step_no,
     role_required |-> step.role_required, approver_user_id |-> None,
     status |-> "PENDING", comment |-> None, signed_at |-> Null,
     evidence_hash |-> None]

Task(v, approval, assignee, priority) ==
    [task_type |-> "APPROVAL", related_document_version_id |-> v,
     step_no |-> approval.step_no, required_role |-> approval.role_required,
     assigned_to_user_id |-> assignee, status |-> "OPEN",
     priority |-> priority, is_blocking |-> TRUE, completed_at |-> Null]

Member(role, temporary, expires) ==
    [role_code |-> role, is_temporary |-> temporary, expires_at |-> expires]

\* the HTTP error a handler raises for each reason, in the engine's error names
ErrorOf(reason) ==
    CASE reason = OK -> OK
      [] reason = "WrongState" -> InvalidTransition
      [] reason = AlreadySubmitted -> AlreadySubmitted
      [] reason \in {"NotMember", "NoPendingStep", "authorCannotApprove",
                     "temporaryCannotApprove", "reviewerCannotApprove"} -> PermissionDenied
      [] OTHER -> BadRequest

Result(op, reason) == [op |-> op, outcome |-> ErrorOf(reason), reason |-> reason]

----------------------------------------------------------------------------
(* Policy resolver, step factory and SoD guards.  Their modules           *)
(* (app.core.approval_policies, app.core.rbac, app.services.governance,    *)
(* app.models.project_member) are imported by the routers.                 *)

\* resolve(doc_type): ordered steps {step_no, role_required, is_optional}
get_approval_policy(doc_type) ==
    IF doc_type = "PDD"
    THEN << [step_no |-> 1, role_required |-> "Architect", is_optional |-> FALSE],
            [step_no |-> 2, role_required |-> "Business Owner", is_optional |-> FALSE] >>
    ELSE IF doc_type = OneStepDocType
    THEN << [step_no |-> 1, role_required |-> "Architect", is_optional |-> FALSE] >>
    ELSE << [step_no |-> 1, role_required |-> "Architect", is_optional |-> FALSE],
            [step_no |-> 2, role_required |-> "Business Owner", is_optional |-> TRUE] >>

get_all_steps(policy) == Range(policy)

RequiredStepNos(policy) == {s.step_no : s \in {t \in Range(policy) : ~t.is_optional}}

\* the final step: the highest step_no among the required steps, or Null
get_final_step(policy) ==
    {n \in RequiredStepNos(policy) : \A m \in RequiredStepNos(policy) : m <= n}

\* ids of the approval rows of version v
StepsOf(v) == {i \in 1..Len(approvals) : approvals[i].document_version_id = v}

\* the factory's precondition: the version carries no step of a running cycle
HasCurrentSteps(v) == \E i \in StepsOf(v) : approvals[i].status = "PENDING"

\* createSteps(version, policy): one PENDING step per policy entry, in order
create_approval_steps_from_policy(v, policy) ==
    approvals \o [k \in 1..Len(policy) |-> Approval(v, policy[k])]

\* a membership is active iff expires_at is null or in the future
is_active(m) == \A t \in m.expires_at : t > now

check_sod_author_cannot_approve(author, approver) == author # approver
check_temporary_user_cannot_approve(m) == ~m.is_temporary
check_sod_reviewer_cannot_approve(reviewer, approver) == reviewer # approver

\* roles of the user's active membership in the project
get_user_roles_in_project(u) ==
    IF u \in DOMAIN members /\ is_active(members[u]) THEN {members[u].role_code} ELSE {}

\* every required (non-optional) step of the version is APPROVED
check_all_approvals_complete(apps, v) ==
    \A i \in 1..Len(apps) :
        (apps[i].document_version_id = v
         /\ apps[i].step_no \in RequiredStepNos(get_approval_policy(document.doc_type)))
        => apps[i].status = "APPROVED"

----------------------------------------------------------------------------
(* Shared pieces of the approve and reject handlers *)

\* the columns an approve writes on its step
Approved(row, u) ==
    [row EXCEPT !.status = "APPROVED", !.approver_user_id = u,
                !.comment = ApproveComment, !.signed_at = At(now),
                !.evidence_hash = EvidenceHash]

\* tasks of version v that are OPEN or IN_PROGRESS become CLOSED
CloseTasks(v) ==
    [k \in 1..Len(tasks) |->
        IF tasks[k].related_document_version_id = v
           /\ tasks[k].status \in {"OPEN", "IN_PROGRESS"}
        THEN [tasks[k] EXCEPT !.status = "CLOSED", !.completed_at = At(now)]
        ELSE tasks[k]]

----------------------------------------------------------------------------
(* app/api/v1/documents.py *)

v1_create_version(u, t, c) ==
    /\ Len(versions) < MaxVersions
    /\ versions' = Append(versions, Version(u, t, c))
    /\ document' = [document EXCEPT !.current_version_id = At(Len(versions) + 1)]
    /\ last' = Result("create_version", OK)
    /\ UNCHANGED <<project, now, approvals, tasks, comments, members, txn>>

\* permanent, active members holding the role: the candidates for the task
EligibleMembers(role) ==
    {u \in DOMAIN members :
        /\ ~members[u].is_temporary
        /\ members[u].role_code = role
        /\ is_active(members[u])}

v1_submit_check(v) ==
    IF versions[v].state # "DRAFT" THEN "WrongState"
    ELSE IF HasCurrentSteps(v) THEN AlreadySubmitted
    ELSE OK

v1_submit_for_review(u, v) ==
    LET policy == get_approval_policy(document.doc_type)
        reason == v1_submit_check(v)
        created == [k \in 1..Len(policy) |-> Approval(v, policy[k])]
    IN  /\ reason = OK => Len(approvals) + Len(policy) <= MaxApprovals
        /\ last' = Result("submit", reason)
        /\ IF reason = OK
           THEN /\ approvals' = create_approval_steps_from_policy(v, policy)
                /\ versions' = [versions EXCEPT ![v].state = "IN_REVIEW",
                                                ![v].submitted_at = At(now)]
                /\ \E pick \in [1..Len(policy) -> Users \cup {None}] :
                     /\ \A k \in 1..Len(policy) :
                          IF EligibleMembers(created[k].role_required) = {}
                          THEN pick[k] = None
                          ELSE pick[k] \in EligibleMembers(created[k].role_required)
                     /\ tasks' = tasks \o SelectSeq(
                          [k \in 1..Len(policy) |->
                              Task(v, created[k], pick[k],
                                   IF created[k].step_no = 1 THEN "HIGH" ELSE "MEDIUM")],
                          LAMBDA t : t.assigned_to_user_id # None)
           ELSE UNCHANGED <<approvals, versions, tasks>>
        /\ UNCHANGED <<project, now, document, comments, members, txn>>

\* the PENDING steps of the version for the member's role, lowest step_no first
v1_pending_approval(u, v) ==
    LET match == {i \in StepsOf(v) :
                    /\ approvals[i].role_required = members[u].role_code
                    /\ approvals[i].status = "PENDING"}
    IN  {i \in match : \A j \in match : approvals[i].step_no <= approvals[j].step_no}

\* the guards of approve_version with the author rule left out
v1_approve_check_no_author_rule(u, v) ==
    IF versions[v].state # "IN_REVIEW" THEN "WrongState"
    ELSE IF u \notin DOMAIN members \/ ~is_active(members[u]) THEN "NotMember"
    ELSE IF ~check_temporary_user_cannot_approve(members[u]) THEN "temporaryCannotApprove"
    ELSE IF v1_pending_approval(u, v) = {} THEN "NoPendingStep"
    ELSE IF <<v, u>> \in comments /\ ~check_sod_reviewer_cannot_approve(u, u)
         THEN "reviewerCannotApprove"
    ELSE OK

\* the guards of approve_version with the temporary rule left out
v1_approve_check_no_temporary_rule(u, v) ==
    IF versions[v].state # "IN_REVIEW" THEN "WrongState"
    ELSE IF u \notin DOMAIN members \/ ~is_active(members[u]) THEN "NotMember"
    ELSE IF v1_pending_approval(u, v) = {} THEN "NoPendingStep"
    ELSE IF ~check_sod_author_cannot_approve(versions[v].created_by, u)
         THEN "authorCannotApprove"
    ELSE IF <<v, u>> \in comments /\ ~check_sod_reviewer_cannot_approve(u, u)
         THEN "reviewerCannotApprove"
    ELSE OK

\* the guards of approve_version with the membership rule reduced to the
\* existence of the row, whatever its expires_at
v1_approve_check_expired_allowed(u, v) ==
    IF versions[v].state # "IN_REVIEW" THEN "WrongState"
    ELSE IF u \notin DOMAIN members THEN "NotMember"
    ELSE IF ~check_temporary_user_cannot_approve(members[u]) THEN "temporaryCannotApprove"
    ELSE IF v1_pending_approval(u, v) = {} THEN "NoPendingStep"
    ELSE IF ~check_sod_author_cannot_approve(versions[v].created_by, u)
         THEN "authorCannotApprove"
    ELSE IF <<v, u>> \in comments /\ ~check_sod_reviewer_cannot_approve(u, u)
         THEN "reviewerCannotApprove"
    ELSE OK

\* approve_version lines 294-350: the guards, in the order the handler runs
\* them; the result is OK or the reason of the first guard that fails
v1_approve_check(u, v) ==
    IF versions[v].state # "IN_REVIEW" THEN "WrongState"
    ELSE IF u \notin DOMAIN members \/ ~is_active(members[u]) THEN "NotMember"
    ELSE IF ~check_temporary_user_cannot_approve(members[u]) THEN "temporaryCannotApprove"
    ELSE IF v1_pending_approval(u, v) = {} THEN "NoPendingStep"
    ELSE IF ~check_sod_author_cannot_approve(versions[v].created_by, u)
         THEN "authorCannotApprove"
    ELSE IF <<v, u>> \in comments /\ ~check_sod_reviewer_cannot_approve(u, u)
         THEN "reviewerCannotApprove"
    ELSE OK

\* lines 352-395: the write of the step, completion detection and the commit.
\* i is the step the handler read as pending.
v1_approve_write(u, v, i) ==
    LET policy == get_approval_policy(document.doc_type)
        final_step == get_final_step(policy)
        is_final_approval == approvals[i].step_no \in final_step
        all_approvals == [approvals EXCEPT ![i] = Approved(@, u)]
        required_approvals ==
            {j \in StepsOf(v) :
                \E s \in get_all_steps(policy) :
                    s.step_no = all_approvals[j].step_no /\ ~s.is_optional}
        approved_required ==
            {j \in required_approvals : all_approvals[j].status = "APPROVED"}
    IN  /\ approvals' = all_approvals
        /\ IF is_final_approval
              /\ Cardinality(approved_required) = Cardinality(required_approvals)
           THEN /\ versions' = [versions EXCEPT ![v].state = "APPROVED",
                                                ![v].locked_at = At(now)]
                /\ document' = [document EXCEPT !.current_version_id = At(v)]
                /\ tasks' = CloseTasks(v)
           ELSE UNCHANGED <<versions, document, tasks>>

\* approve_version with the step written before the segregation-of-duties
\* guards have been evaluated
v1_approve_version_write_before_guards(u, v) ==
    LET reason == v1_approve_check(u, v)
        refused == reason \in {"authorCannotApprove", "reviewerCannotApprove"}
    IN  /\ last' = Result("approve", reason)
        /\ IF reason = OK
           THEN \E i \in v1_pending_approval(u, v) : v1_approve_write(u, v, i)
           ELSE IF refused
           THEN /\ \E i \in v1_pending_approval(u, v) :
                     approvals' = [approvals EXCEPT ![i] = Approved(@, u)]
                /\ UNCHANGED <<versions, document, tasks>>
           ELSE UNCHANGED <<approvals, versions, document, tasks>>
        /\ UNCHANGED <<project, now, comments, members, txn>>

v1_approve_version(u, v) ==
    LET reason == v1_approve_check(u, v)
    IN  /\ last' = Result("approve", reason)
        /\ IF reason = OK
           THEN \E i \in v1_pending_approval(u, v) : v1_approve_write(u, v, i)
           ELSE UNCHANGED <<approvals, versions, document, tasks>>
        /\ UNCHANGED <<project, now, comments, members, txn>>

\* app/db.py: sessionmaker(autocommit=False, autoflush=False): a query does not
\* write the session's pending changes first
autoflush == FALSE

CascadeComment(step_no) == "Rejected due to rejection at step " \o ToString(step_no)

\* the PENDING steps of the version for the member's role; the query has no order
v1_reject_pending(u, v) ==
    {i \in StepsOf(v) :
        /\ approvals[i].role_required = members[u].role_code
        /\ approvals[i].status = "PENDING"}

v1_reject_check(u, v) ==
    IF versions[v].state # "IN_REVIEW" THEN "WrongState"
    ELSE IF u \notin DOMAIN members \/ ~is_active(members[u]) THEN "NotMember"
    ELSE IF v1_reject_pending(u, v) = {} THEN "NoPendingStep"
    ELSE OK

\* lines 467-494.  other_pending is what the database holds: without autoflush
\* the step being rejected is still PENDING there and is part of the result.
v1_reject_write(u, v, i) ==
    LET rejected == [approvals[i] EXCEPT !.status = "REJECTED",
                                         !.approver_user_id = u,
                                         !.comment = RejectComment,
                                         !.signed_at = At(now)]
        other_pending ==
            {j \in StepsOf(v) : approvals[j].status = "PENDING" /\ (autoflush => j # i)}
        step_no == approvals[i].step_no
    IN  /\ approvals' =
              [j \in 1..Len(approvals) |->
                  LET row == IF j = i THEN rejected ELSE approvals[j]
                  IN  IF j \in other_pending
                      THEN [row EXCEPT !.status = "REJECTED",
                                       !.comment = CascadeComment(step_no)]
                      ELSE row]
        /\ versions' = [versions EXCEPT ![v].state = "DRAFT"]
        /\ tasks' = CloseTasks(v)

v1_reject_version(u, v) ==
    LET reason == v1_reject_check(u, v)
    IN  /\ last' = Result("reject", reason)
        /\ IF reason = OK
           THEN \E i \in v1_reject_pending(u, v) : v1_reject_write(u, v, i)
           ELSE UNCHANGED <<approvals, versions, tasks>>
        /\ UNCHANGED <<project, now, document, comments, members, txn>>

v1_add_comment(u, v) ==
    /\ comments' = comments \cup {<<v, u>>}
    /\ last' = Result("add_comment", OK)
    /\ UNCHANGED <<project, now, document, versions, approvals, tasks, members, txn>>

\* the rendered file: the hash is that of the template filled with the content
v1_render_check(v) ==
    IF versions[v].template_id = None THEN "NoTemplate"
    ELSE IF versions[v].content_json = NoContent THEN "NoContent"
    ELSE OK

v1_render_version(u, v) ==
    LET reason == v1_render_check(v)
    IN  /\ last' = Result("render", reason)
        /\ IF reason = OK
           THEN versions' = [versions EXCEPT
                   ![v].file_object_key = "documents/v" \o ToString(v) \o ".docx",
                   ![v].file_hash = At(<<versions[v].template_id, versions[v].content_json>>)]
           ELSE UNCHANGED versions
        /\ UNCHANGED <<project, now, document, approvals, tasks, comments, members, txn>>

----------------------------------------------------------------------------
(* app/api/documents.py *)

api_create_check ==
    IF \E cv \in document.current_version_id : versions[cv].state = "DRAFT"
    THEN "DraftExists" ELSE OK

api_create_version(u, t, c) ==
    LET reason == api_create_check
    IN  /\ Len(versions) < MaxVersions
        /\ last' = Result("create_version", reason)
        /\ IF reason = OK
           THEN /\ versions' = Append(versions, Version(u, t, c))
                /\ document' = [document EXCEPT
                                  !.current_version_id = At(Len(versions) + 1)]
           ELSE UNCHANGED <<versions, document>>
        /\ UNCHANGED <<project, now, approvals, tasks, comments, members, txn>>

api_submit_check(v) ==
    IF versions[v].state # "DRAFT" THEN "WrongState"
    ELSE IF HasCurrentSteps(v) THEN AlreadySubmitted
    ELSE OK

api_submit_for_review(u, v) ==
    LET policy == get_approval_policy(document.doc_type)
        reason == api_submit_check(v)
        created == [k \in 1..Len(policy) |-> Approval(v, policy[k])]
    IN  /\ reason = OK => Len(approvals) + Len(policy) <= MaxApprovals
        /\ last' = Result("submit", reason)
        /\ IF reason = OK
           THEN /\ approvals' = create_approval_steps_from_policy(v, policy)
                /\ versions' = [versions EXCEPT ![v].state = "IN_REVIEW",
                                                ![v].submitted_at = At(now)]
                /\ tasks' = tasks \o
                     [k \in 1..Len(policy) |-> Task(v, created[k], None, "HIGH")]
           ELSE UNCHANGED <<approvals, versions, tasks>>
        /\ UNCHANGED <<project, now, document, comments, members, txn>>

\* the first PENDING step of version.approvals whose role the user holds
api_pending_approval(u, v) ==
    LET match == {i \in StepsOf(v) :
                    /\ approvals[i].status = "PENDING"
                    /\ approvals[i].role_required \in get_user_roles_in_project(u)}
    IN  {i \in match : \A j \in match : i <= j}

\* validate_approval: the reason of the GovernanceError it raises, or OK
validate_approval(v, u) ==
    IF ~check_sod_author_cannot_approve(versions[v].created_by, u)
    THEN "authorCannotApprove"
    ELSE IF <<v, u>> \in comments THEN "reviewerCannotApprove"
    ELSE IF ~(u \in DOMAIN members /\ check_temporary_user_cannot_approve(members[u]))
    THEN "temporaryCannotApprove"
    ELSE OK

api_approve_check(u, v) ==
    IF versions[v].state # "IN_REVIEW" THEN "WrongState"
    ELSE IF api_pending_approval(u, v) = {} THEN "NoPendingStep"
    ELSE validate_approval(v, u)

\* lines 319-337 and the commit.  loaded is version.approvals as the session
\* loaded it; i is the step found pending.
api_approve_write(u, v, i, loaded) ==
    LET mine == [loaded[i] EXCEPT !.status = "APPROVED", !.approver_user_id = u,
                                  !.comment = ApproveComment, !.signed_at = At(now)]
        seen == [loaded EXCEPT ![i] = mine]
    IN  /\ approvals' = [approvals EXCEPT ![i].status = mine.status,
                                          ![i].approver_user_id = mine.approver_user_id,
                                          ![i].comment = mine.comment,
                                          ![i].signed_at = mine.signed_at]
        /\ IF check_all_approvals_complete(seen, v)
           THEN /\ versions' = [versions EXCEPT ![v].state = "APPROVED",
                                                ![v].locked_at = At(now)]
                /\ tasks' = [k \in 1..Len(tasks) |->
                               IF tasks[k].related_document_version_id = v
                                  /\ tasks[k].task_type = "APPROVAL"
                               THEN [tasks[k] EXCEPT !.status = "COMPLETED",
                                                     !.completed_at = At(now)]
                               ELSE tasks[k]]
           ELSE UNCHANGED <<versions, tasks>>

api_approve_version(u, v) ==
    LET reason == api_approve_check(u, v)
    IN  /\ last' = Result("approve", reason)
        /\ IF reason = OK
           THEN \E i \in api_pending_approval(u, v) : api_approve_write(u, v, i, approvals)
           ELSE UNCHANGED <<approvals, versions, tasks>>
        /\ UNCHANGED <<project, now, document, comments, members, txn>>

api_reject_check(u, v) ==
    IF versions[v].state # "IN_REVIEW" THEN "WrongState"
    ELSE IF api_pending_approval(u, v) = {} THEN "NoPendingStep"
    ELSE OK

api_reject_version(u, v) ==
    LET reason == api_reject_check(u, v)
    IN  /\ last' = Result("reject", reason)
        /\ IF reason = OK
           THEN \E i \in api_pending_approval(u, v) :
                  /\ approvals' = [approvals EXCEPT ![i].status = "REJECTED",
                                                    ![i].approver_user_id = u,
                                                    ![i].comment = RejectComment,
                                                    ![i].signed_at = At(now)]
                  /\ versions' = [versions EXCEPT ![v].state = "DRAFT"]
           ELSE UNCHANGED <<approvals, versions>>
        /\ UNCHANGED <<project, now, document, tasks, comments, members, txn>>

\* services/storage.py generate_object_key: name_timestamp_uniqueid.docx
api_render_version(u, v, uid) ==
    LET reason == v1_render_check(v)
    IN  /\ last' = Result("render", reason)
        /\ IF reason = OK
           THEN versions' = [versions EXCEPT
                   ![v].file_object_key =
                       "documents/v" \o ToString(v) \o "_" \o ToString(now) \o "_" \o uid \o ".docx",
                   ![v].file_hash = At(<<versions[v].template_id, versions[v].content_json>>)]
           ELSE UNCHANGED versions
        /\ UNCHANGED <<project, now, document, approvals, tasks, comments, members, txn>>

api_add_comment(u, v) ==
    /\ comments' = comments \cup {<<v, u>>}
    /\ last' = Result("add_comment", OK)
    /\ UNCHANGED <<project, now, document, versions, approvals, tasks, members, txn>>

----------------------------------------------------------------------------
(* app/routers/documents.py: the router that app/main.py mounts *)

routers_create_version(u, t, c) ==
    /\ Len(versions) < MaxVersions
    /\ versions' = Append(versions, Version(u, t, c))
    /\ document' = [document EXCEPT !.current_version_id = At(Len(versions) + 1)]
    /\ last' = Result("create_version", OK)
    /\ UNCHANGED <<project, now, approvals, tasks, comments, members, txn>>

\* a key the payload dict does not hold
Absent == "absent"

NoKeys == [content_json |-> Absent, template_id |-> Absent, state |-> Absent]

\* the request bodies tried: one key each
StatePayloads == {[NoKeys EXCEPT !.state = st] : st \in {"IN_REVIEW", "APPROVED"}}
ContentPayloads == {[NoKeys EXCEPT !.content_json = c] : c \in Contents}
TemplatePayloads == {[NoKeys EXCEPT !.template_id = t] : t \in Templates \cup {None}}

routers_update_version(v, payload) ==
    LET reason == IF versions[v].state # "DRAFT" THEN "WrongState" ELSE OK
        content == IF payload.content_json # Absent
                   THEN payload.content_json ELSE versions[v].content_json
        template == IF payload.template_id # Absent
                    THEN payload.template_id ELSE versions[v].template_id
        in_review == payload.state = "IN_REVIEW"
    IN  /\ last' = Result("update_version", reason)
        /\ IF reason = OK
           THEN versions' = [versions EXCEPT
                   ![v].content_json = content,
                   ![v].template_id = template,
                   ![v].state = IF payload.state # Absent THEN payload.state ELSE @,
                   ![v].submitted_at = IF in_review THEN At(now) ELSE @,
                   ![v].locked_at = IF in_review THEN At(now) ELSE @]
           ELSE UNCHANGED versions
        /\ UNCHANGED <<project, now, document, approvals, tasks, comments, members, txn>>

routers_submit_version(v) ==
    /\ versions' = [versions EXCEPT ![v].state = "IN_REVIEW",
                                    ![v].submitted_at = At(now),
                                    ![v].locked_at = At(now)]
    /\ last' = Result("submit", OK)
    /\ UNCHANGED <<project, now, document, approvals, tasks, comments, members, txn>>

----------------------------------------------------------------------------
(* The clock *)

Tick ==
    /\ now < MaxTime
    /\ now' = now + 1
    /\ UNCHANGED <<project, document, versions, approvals, tasks, comments, members, txn, last>>

----------------------------------------------------------------------------
(* The system: requests are handled one at a time *)

\* the memberships of the project: u4 is a temporary member, u5 is no member
InitMembers ==
    [u \in {"u1", "u2", "u3", "u4"} |->
        CASE u = "u1" -> Member("Architect", FALSE, Null)
          [] u = "u2" -> Member("Architect", FALSE, Null)
          [] u = "u3" -> Member("Business Owner", FALSE, Null)
          [] u = "u4" -> Member("Architect", TRUE, At(1))]

Init ==
    /\ now = 0
    /\ document \in [doc_type : DocTypes, current_version_id : {Null}]
    /\ versions = <<>>
    /\ approvals = <<>>
    /\ tasks = <<>>
    /\ comments = {}
    /\ members = InitMembers
    /\ project = [raci_matrix_json |-> Null]
    /\ txn = [p \in Procs |-> Idle]
    /\ last = Result("init", OK)

Next ==
    \/ Tick
    \/ \E u \in Authors, t \in Templates, c \in Contents \ {NoContent} :
         \/ v1_create_version(u, t, c)
         \/ api_create_version(u, t, c)
         \/ routers_create_version(u, t, c)
    \/ \E u \in Authors, v \in VersionIds :
         \/ v1_submit_for_review(u, v)
         \/ api_submit_for_review(u, v)
    \/ \E u \in Users, v \in VersionIds :
         \/ v1_approve_version(u, v)
         \/ v1_reject_version(u, v)
         \/ api_approve_version(u, v)
         \/ api_reject_version(u, v)
    \/ \E u \in Reviewers, v \in VersionIds :
         \/ v1_add_comment(u, v)
         \/ api_add_comment(u, v)
    \/ \E v \in VersionIds :
         \/ routers_submit_version(v)
         \/ \E payload \in StatePayloads \cup ContentPayloads :
              routers_update_version(v, payload)

Spec == Init /\ [][Next]_vars

----------------------------------------------------------------------------
(* The approval workflow alone: the handlers of api/v1/documents.py and
   api/documents.py that create, submit, approve, reject and comment *)

NextWorkflow ==
    \/ Tick
    \/ \E u \in Authors, t \in Templates, c \in Contents \ {NoContent} :
         v1_create_version(u, t, c)
    \/ \E u \in Authors, v \in VersionIds :
         \/ v1_submit_for_review(u, v)
         \/ api_submit_for_review(u, v)
    \/ \E u \in Users, v \in VersionIds :
         \/ v1_approve_version(u, v)
         \/ v1_reject_version(u, v)
         \/ api_approve_version(u, v)
         \/ api_reject_version(u, v)
    \/ \E u \in Reviewers, v \in VersionIds :
         \/ v1_add_comment(u, v)
         \/ api_add_comment(u, v)

SpecWorkflow == Init /\ [][NextWorkflow]_vars

----------------------------------------------------------------------------
(* The approval workflow of a document whose policy has one step, so that a
   second submission cycle fits under MaxApprovals *)

InitResubmit ==
    /\ now = 0
    /\ document = [doc_type |-> OneStepDocType, current_version_id |-> Null]
    /\ versions = <<>>
    /\ approvals = <<>>
    /\ tasks = <<>>
    /\ comments = {}
    /\ members = InitMembers
    /\ project = [raci_matrix_json |-> Null]
    /\ txn = [p \in Procs |-> Idle]
    /\ last = Result("init", OK)

SpecResubmit == InitResubmit /\ [][NextWorkflow]_vars

----------------------------------------------------------------------------
(* Rendering, checked apart from the approval workflow *)

NextRender ==
    \/ \E u \in Authors, t \in Templates, c \in Contents \ {NoContent} :
         v1_create_version(u, t, c)
    \/ \E u \in Authors, v \in VersionIds : v1_submit_for_review(u, v)
    \/ \E u \in Users, v \in VersionIds :
         \/ v1_approve_version(u, v)
         \/ v1_render_version(u, v)
         \/ \E uid \in UniqueIds : api_render_version(u, v, uid)
    \/ \E v \in VersionIds, payload \in ContentPayloads \cup TemplatePayloads :
         routers_update_version(v, payload)
    \/ Tick

SpecRender == Init /\ [][NextRender]_vars

----------------------------------------------------------------------------
(* Concurrent requests.  Each request has its own session: what it read    *)
(* stays in the session until it writes and commits.                       *)

Returned(u, v, i, reason) ==
    [op |-> "returned", user |-> u, v |-> v, step |-> i, outcome |-> ErrorOf(reason)]

\* lines 290-350 of api/v1/documents.py: the reads and the guards
v1_approve_begin(p, u, v) ==
    LET reason == v1_approve_check(u, v)
    IN  /\ txn[p] = Idle
        /\ IF reason = OK
           THEN /\ \E i \in v1_pending_approval(u, v) :
                     txn' = [txn EXCEPT ![p] =
                               [op |-> "v1.approve", user |-> u, v |-> v, step |-> i]]
                /\ UNCHANGED last
           ELSE /\ txn' = [txn EXCEPT ![p] = Returned(u, v, 0, reason)]
                /\ last' = Result("approve", reason)
        /\ UNCHANGED <<project, now, document, versions, approvals, tasks, comments, members>>

\* lines 352-395: the write of the step that was read, completion, commit
v1_approve_commit(p) ==
    /\ txn[p].op = "v1.approve"
    /\ v1_approve_write(txn[p].user, txn[p].v, txn[p].step)
    /\ txn' = [txn EXCEPT ![p] = Returned(txn[p].user, txn[p].v, txn[p].step, OK)]
    /\ last' = Result("approve", OK)
    /\ UNCHANGED <<project, now, comments, members>>

\* lines 277-317 of api/documents.py: the reads and the guards
api_approve_begin(p, u, v) ==
    LET reason == api_approve_check(u, v)
    IN  /\ txn[p] = Idle
        /\ IF reason = OK
           THEN /\ \E i \in api_pending_approval(u, v) :
                     txn' = [txn EXCEPT ![p] =
                               [op |-> "api.approve", user |-> u, v |-> v, step |-> i,
                                loaded |-> approvals]]
                /\ UNCHANGED last
           ELSE /\ txn' = [txn EXCEPT ![p] = Returned(u, v, 0, reason)]
                /\ last' = Result("approve", reason)
        /\ UNCHANGED <<project, now, document, versions, approvals, tasks, comments, members>>

\* lines 319-357: the write of the step that was read, completion, commit
api_approve_commit(p) ==
    /\ txn[p].op = "api.approve"
    /\ api_approve_write(txn[p].user, txn[p].v, txn[p].step, txn[p].loaded)
    /\ txn' = [txn EXCEPT ![p] = Returned(txn[p].user, txn[p].v, txn[p].step, OK)]
    /\ last' = Result("approve", OK)
    /\ UNCHANGED <<project, now, document, comments, members>>

\* the response has been sent: the worker takes the next request
respond(p) ==
    /\ txn[p].op = "returned"
    /\ txn' = [txn EXCEPT ![p] = Idle]
    /\ UNCHANGED <<project, now, document, versions, approvals, tasks, comments, members, last>>

NextRace ==
    \/ \E u \in Authors, t \in Templates, c \in Contents \ {NoContent} :
         v1_create_version(u, t, c)
    \/ \E u \in Authors, v \in VersionIds :
         \/ v1_submit_for_review(u, v)
         \/ api_submit_for_review(u, v)
    \/ \E p \in Procs, u \in Users, v \in VersionIds :
         \/ v1_approve_begin(p, u, v)
         \/ api_approve_begin(p, u, v)
    \/ \E p \in Procs :
         \/ v1_approve_commit(p)
         \/ api_approve_commit(p)
         \/ respond(p)

SpecRace == Init /\ [][NextRace]_vars

----------------------------------------------------------------------------
(* An approve and a reject of api/v1/documents.py as concurrent requests *)

\* reject_version lines 428-465: the reads and the guards
v1_reject_begin(p, u, v) ==
    LET reason == v1_reject_check(u, v)
    IN  /\ txn[p] = Idle
        /\ IF reason = OK
           THEN /\ \E i \in v1_reject_pending(u, v) :
                     txn' = [txn EXCEPT ![p] =
                               [op |-> "v1.reject", user |-> u, v |-> v, step |-> i]]
                /\ UNCHANGED last
           ELSE /\ txn' = [txn EXCEPT ![p] = Returned(u, v, 0, reason)]
                /\ last' = Result("reject", reason)
        /\ UNCHANGED <<project, now, document, versions, approvals, tasks, comments, members>>

\* reject_version lines 467-494: the write of the step that was read, the
\* cascade over the steps PENDING in the database, the state change, commit
v1_reject_commit(p) ==
    /\ txn[p].op = "v1.reject"
    /\ v1_reject_write(txn[p].user, txn[p].v, txn[p].step)
    /\ txn' = [txn EXCEPT ![p] = Returned(txn[p].user, txn[p].v, txn[p].step, OK)]
    /\ last' = Result("reject", OK)
    /\ UNCHANGED <<project, now, document, comments, members>>

NextRaceReject ==
    \/ \E u \in Authors, t \in Templates, c \in Contents \ {NoContent} :
         v1_create_version(u, t, c)
    \/ \E u \in Authors, v \in VersionIds : v1_submit_for_review(u, v)
    \/ \E p \in Procs, u \in Users, v \in VersionIds :
         \/ v1_approve_begin(p, u, v)
         \/ v1_reject_begin(p, u, v)
    \/ \E p \in Procs :
         \/ v1_approve_commit(p)
         \/ v1_reject_commit(p)
         \/ respond(p)

SpecRaceReject == Init /\ [][NextRaceReject]_vars

----------------------------------------------------------------------------
(* The RACI matrix of the project and the tasks generated from it:
   app/routers/projects.py.  The matrix is the list raci_matrix["stages"]; a
   dict is the sequence of its entries in insertion order. *)

MaxRaciTasks == 6

RaciValues == {"R", "A", "C", "I"}
Prefixes == {"", "P1 "}
TaskNames == {"SDD", "PDD", "Notes", "TG (TG 1)", "TG 1", "Automation Brief"}
Levels == {1, 2}
EscalationReason == "overdue"

RoleEntry(role, raci_value) == [role |-> role, raci_value |-> raci_value]

\* a task of the matrix; a key the stored dict does not carry reads as None,
\* an empty list or FALSE
RaciTask(name, roles) ==
    [task |-> name, roles |-> roles, status |-> None, escalations |-> <<>>,
     escalated |-> FALSE]

\* _get_default_raci_matrix, abridged to its first stage and to the first two
\* roles of each of its tasks
DefaultMatrix ==
    << [stage |-> "Discovery",
        tasks |-> << RaciTask("Automation Brief",
                              << RoleEntry("Process Owner", "A"), RoleEntry("SME", "A") >>),
                     RaciTask("TG 1",
                              << RoleEntry("Process Owner", "R"),
                                 RoleEntry("App Owner", "R") >>) >>] >>

\* the matrices a client stores with PUT /raci
MatrixA ==
    << [stage |-> "Design",
        tasks |-> << RaciTask("SDD", << RoleEntry("Solution Architect", "A"),
                                        RoleEntry("Developer", "R") >>),
                     RaciTask("Notes", << RoleEntry("Business Owner", "C"),
                                          RoleEntry("Tester", "I") >>) >>] >>

MatrixB ==
    << [stage |-> "Design",
        tasks |-> << RaciTask("PDD", << RoleEntry("Developer", "R"),
                                        RoleEntry("Business Owner", "C"),
                                        RoleEntry("Solution Architect", "A"),
                                        RoleEntry("Tester", "I") >>) >>],
       [stage |-> "Build",
        tasks |-> << RaciTask("TG (TG 1)", << RoleEntry("Developer", "R"),
                                              RoleEntry("Tester", "A") >>) >>] >>

\* MatrixA with an escalation already recorded on "SDD"
EarlierEscalation ==
    [level |-> 1, escalated_to_roles |-> << "Solution Architect", "Developer" >>,
     triggered_at |-> 0, triggered_by |-> "u3", reason |-> EscalationReason]

MatrixC ==
    [MatrixA EXCEPT ![1].tasks[1].escalations = << EarlierEscalation >>,
                    ![1].tasks[1].escalated = TRUE]

Matrices == {MatrixA, MatrixB, MatrixC}

\* project.raci_matrix_json or _get_default_raci_matrix()
raci_matrix_of(p) ==
    IF p.raci_matrix_json = Null THEN DefaultMatrix
    ELSE CHOOSE m \in p.raci_matrix_json : TRUE

RECURSIVE Concat(_)
Concat(ss) == IF ss = <<>> THEN <<>> ELSE Head(ss) \o Concat(Tail(ss))

\* generate_tasks_from_raci lines 1402-1434: the roles with R, A or C in dict
\* order, then sorted (stable) by get_raci_priority: R, then C, then A
get_raci_priority(raci_value) ==
    IF raci_value = "R" THEN 1
    ELSE IF raci_value = "C" THEN 2
    ELSE IF raci_value = "A" THEN 3
    ELSE 99

\* the roles with R, A or C in dict order, without the sort of line 1434
responsible_roles_unsorted(raci_task) ==
    SelectSeq(raci_task.roles, LAMBDA e : e.raci_value \in {"R", "A", "C"})

responsible_roles(raci_task) ==
    LET kept == SelectSeq(raci_task.roles, LAMBDA e : e.raci_value \in {"R", "A", "C"})
        WithPriority(n) == SelectSeq(kept, LAMBDA e : get_raci_priority(e.raci_value) = n)
    IN  WithPriority(1) \o WithPriority(2) \o WithPriority(3) \o WithPriority(99)

\* the (stage, task, role) tuples in the order the loops visit them
Candidates(matrix) ==
    LET OfTask(stage_name, raci_task) ==
            LET rr == responsible_roles(raci_task)
            IN  [k \in 1..Len(rr) |->
                    [stage |-> stage_name, task |-> raci_task.task,
                     role |-> rr[k].role, raci_value |-> rr[k].raci_value]]
        OfStage(st) == Concat([k \in 1..Len(st.tasks) |-> OfTask(st.stage, st.tasks[k])])
    IN  Concat([k \in 1..Len(matrix) |-> OfStage(matrix[k])])

\* re.match(r'TG\s*\(TG\s*(\d+)\)', task_name): the number matched, for the
\* task names of the model
tg_match(task_name) == IF task_name = "TG (TG 1)" THEN At("1") ELSE Null

\* lines 1448-1474: title and type from the letter
task_title(task_prefix, task_name, raci_value) ==
    IF raci_value = "A" THEN task_prefix \o task_name \o " Approval"
    ELSE IF raci_value = "R"
    THEN IF tg_match(task_name) # Null
         THEN task_prefix \o "TG " \o (CHOOSE n \in tg_match(task_name) : TRUE) \o " Trial"
         ELSE task_prefix \o task_name \o " Creation"
    ELSE IF raci_value = "C" THEN task_prefix \o task_name \o " Review"
    ELSE task_prefix \o task_name

task_type_for_role(raci_value) ==
    IF raci_value = "A" THEN "APPROVAL"
    ELSE IF raci_value = "R" THEN "DEVELOPMENT"
    ELSE IF raci_value = "C" THEN "REVIEW"
    ELSE "GENERAL"

\* lines 1476-1486: the two dedup queries, answered by the rows of the database
existing_by_raci(rows, c) ==
    \E k \in 1..Len(rows) :
        /\ rows[k].raci_stage = c.stage
        /\ rows[k].raci_task_name = c.task
        /\ rows[k].required_role = c.role

existing_by_title(rows, title) == \E k \in 1..Len(rows) : rows[k].title = title

\* the dedup without the query on the natural key
task_exists_by_title_only(rows, c, title) == existing_by_title(rows, title)

\* line 1489
task_exists(rows, c, title) == existing_by_raci(rows, c) \/ existing_by_title(rows, title)

\* lines 1516-1528: the Task row of a candidate
RaciTaskRow(c, title, assignee) ==
    [task_type |-> task_type_for_role(c.raci_value), title |-> title,
     raci_stage |-> c.stage, raci_task_name |-> c.task,
     assigned_to_user_id |-> assignee, required_role |-> c.role,
     status |-> "OPEN", priority |-> "NORMAL", is_blocking |-> c.raci_value = "A",
     completed_at |-> Null, reviewer_id |-> None, verified_at |-> Null,
     verified_by |-> None]

\* _get_team_members_dict: the users of the active memberships with the role;
\* the dict keeps one of them per role
team_members(role) ==
    {u \in DOMAIN members : members[u].role_code = role /\ is_active(members[u])}

\* what one call decides from the rows it reads: every dedup query goes to the
\* database, and the tasks the call has added are not flushed before the end
\* (autoflush is off, lines 1530-1531), so rows are the committed rows
generate_plan(rows, task_prefix, assignee) ==
    LET cands == Candidates(raci_matrix_of(project))
        Title(c) == task_title(task_prefix, c.task, c.raci_value)
        fresh == SelectSeq(cands, LAMBDA c : ~task_exists(rows, c, Title(c)))
        dup == SelectSeq(cands, LAMBDA c : task_exists(rows, c, Title(c)))
    IN  [rows |-> [k \in 1..Len(fresh) |->
                      RaciTaskRow(fresh[k], Title(fresh[k]), assignee[fresh[k].role])],
         created |-> [k \in 1..Len(fresh) |->
                        [title |-> Title(fresh[k]), stage |-> fresh[k].stage,
                         task |-> fresh[k].task, role |-> fresh[k].role]],
         skipped |-> [k \in 1..Len(dup) |->
                        [stage |-> dup[k].stage, task |-> dup[k].task,
                         role |-> dup[k].role]]]

RaciRoles ==
    {"Process Owner", "SME", "App Owner", "Solution Architect", "Developer",
     "Business Owner", "Tester"}

\* the assignee of each role: a team member with the role, or None
Assignees ==
    LET staffed == {r \in RaciRoles : team_members(r) # {}}
        picks == {g \in [staffed -> DOMAIN members] :
                     \A r \in staffed : g[r] \in team_members(r)}
    IN  {[r \in RaciRoles |-> IF r \in staffed THEN g[r] ELSE None] : g \in picks}

GenerateResult(plan) ==
    [op |-> "generate", outcome |-> OK, reason |-> OK,
     created |-> plan.created, skipped |-> plan.skipped]

\* PUT /raci, update_project_raci lines 574-606
update_project_raci(m) ==
    /\ project' = [project EXCEPT !.raci_matrix_json = At(m)]
    /\ last' = Result("update_raci", OK)
    /\ UNCHANGED <<now, document, versions, approvals, tasks, comments, members, txn>>

\* POST /tasks/generate-from-raci handled alone
generate_tasks_from_raci(task_prefix) ==
    \E assignee \in Assignees :
        LET plan == generate_plan(tasks, task_prefix, assignee)
        IN  /\ Len(tasks) + Len(plan.rows) <= MaxRaciTasks
            /\ tasks' = tasks \o plan.rows
            /\ last' = GenerateResult(plan)
            /\ UNCHANGED <<now, document, versions, approvals, comments, members,
                           project, txn>>

\* POST /tasks/generate-from-raci as two steps of a request: the dedup
\* queries (lines 1476-1487), then db.flush() and db.commit() (lines 1557-1558)
generate_begin(p, task_prefix) ==
    /\ txn[p] = Idle
    /\ \E assignee \in Assignees :
         txn' = [txn EXCEPT ![p] =
                   [op |-> "generate", plan |-> generate_plan(tasks, task_prefix, assignee)]]
    /\ UNCHANGED <<now, document, versions, approvals, tasks, comments, members,
                   project, last>>

generate_commit(p) ==
    /\ txn[p].op = "generate"
    /\ Len(tasks) + Len(txn[p].plan.rows) <= MaxRaciTasks
    /\ tasks' = tasks \o txn[p].plan.rows
    /\ txn' = [txn EXCEPT ![p] = Returned(None, 0, 0, OK)]
    /\ last' = GenerateResult(txn[p].plan)
    /\ UNCHANGED <<now, document, versions, approvals, comments, members, project>>

\* str.endswith over the titles of the model
ends_with(title, suffix) ==
    \E pre \in Prefixes, n \in TaskNames : title = pre \o n \o suffix

\* update_project_task lines 1020-1052: the row the sibling query returns
\* (.first() without ORDER BY: any matching row)
sibling(rows, k, suffix) ==
    {j \in 1..Len(rows) :
        /\ rows[j].raci_stage = rows[k].raci_stage
        /\ rows[j].raci_task_name = rows[k].raci_task_name
        /\ rows[j].title = rows[k].raci_task_name \o suffix
        /\ rows[j].status = "OPEN"}

next_in_sequence(rows, k) ==
    IF rows[k].raci_stage = None \/ rows[k].raci_task_name = None THEN {}
    ELSE IF ends_with(rows[k].title, " Creation") THEN sibling(rows, k, " Review")
    ELSE IF ends_with(rows[k].title, " Review") THEN sibling(rows, k, " Approval")
    ELSE {}

PayloadStatuses == {"IN_PROGRESS", "COMPLETED"}

\* PUT /projects/{id}/tasks/{task_id} with payload {"status": status}
update_project_task(k, status) ==
    /\ k \in 1..Len(tasks)
    /\ LET set == [tasks EXCEPT ![k].status = status,
                                ![k].completed_at =
                                    IF status = "COMPLETED" THEN At(now) ELSE @]
           nxt == IF status = "COMPLETED" THEN next_in_sequence(tasks, k) ELSE {}
       IN  \/ /\ nxt = {}
              /\ tasks' = set
           \/ \E j \in nxt : tasks' = [set EXCEPT ![j].status = "IN_PROGRESS"]
    /\ last' = [op |-> "update_task", outcome |-> OK, reason |-> OK, task |-> k,
                status |-> status]
    /\ UNCHANGED <<now, document, versions, approvals, comments, members, project, txn>>

\* app/api/tasks.py complete_task lines 173-218
complete_task(k) ==
    /\ k \in 1..Len(tasks)
    /\ IF tasks[k].status \in {"OPEN", "IN_PROGRESS"}
       THEN /\ tasks' = [tasks EXCEPT ![k].status = "COMPLETED",
                                      ![k].completed_at = At(now)]
            /\ last' = [op |-> "complete_task", outcome |-> OK, reason |-> OK,
                        task |-> k, status |-> "COMPLETED"]
       ELSE /\ last' = [op |-> "complete_task", outcome |-> BadRequest,
                        reason |-> "WrongStatus", task |-> k,
                        status |-> tasks[k].status]
            /\ UNCHANGED tasks
    /\ UNCHANGED <<now, document, versions, approvals, comments, members, project, txn>>

\* the loops of lines 640-655 and 707-716: the first task of the matrix with
\* the stage and task name, as <<i, j>>, or Null
find_task(matrix, stage_name, task_name) ==
    LET hits == {ij \in {<<i, j>> : i \in 1..Len(matrix), j \in 1..2} :
                    /\ ij[2] <= Len(matrix[ij[1]].tasks)
                    /\ matrix[ij[1]].stage = stage_name
                    /\ matrix[ij[1]].tasks[ij[2]].task = task_name}
    IN  IF hits = {} THEN Null
        ELSE At(CHOOSE h \in hits :
                    \A g \in hits : h[1] < g[1] \/ (h[1] = g[1] /\ h[2] <= g[2]))

\* project.raci_matrix_json = raci_matrix; db.add; db.commit; db.refresh
\* (lines 661-664, 753-756) after the dict was changed in place.  The column is
\* a plain JSONB (models/entities.py line 95): when raci_matrix is the dict
\* loaded from the column, the assignment stores the object the attribute
\* already holds, the unit of work compares it with itself and writes nothing,
\* and refresh reloads the stored value; when the column is NULL, raci_matrix
\* is the default dict, a new value, and it is written.
save_raci_matrix(p, mutated) ==
    IF p.raci_matrix_json = Null THEN [p EXCEPT !.raci_matrix_json = At(mutated)]
    ELSE p

\* the roles with R, A or C
escalated_roles_with_consulted(raci_task) ==
    SelectSeq(raci_task.roles, LAMBDA e : e.raci_value \in {"R", "A", "C"})

\* lines 721-729
escalated_roles(raci_task) ==
    SelectSeq(raci_task.roles, LAMBDA e : e.raci_value \in {"R", "A"})

Escalation(level, roles, user) ==
    [level |-> level, escalated_to_roles |-> [k \in 1..Len(roles) |-> roles[k].role],
     triggered_at |-> now, triggered_by |-> user, reason |-> EscalationReason]

\* the (stage, task) pairs a client names
Targets ==
    {<<"Design", "SDD">>, <<"Design", "Notes">>, <<"Discovery", "TG 1">>,
     <<"Build", "TG (TG 1)">>}

\* POST /raci/escalate, escalate_raci_task lines 676-768
escalate_raci_task(u, stage_name, task_name, level) ==
    LET raci_matrix == raci_matrix_of(project)
        pos == find_task(raci_matrix, stage_name, task_name)
    IN  /\ IF pos = Null
           THEN /\ last' = [op |-> "escalate", outcome |-> "NotFound",
                            reason |-> "TaskNotFound"]
                /\ UNCHANGED project
           ELSE LET ij == CHOOSE h \in pos : TRUE
                    task == raci_matrix[ij[1]].tasks[ij[2]]
                    escalation == Escalation(level, escalated_roles(task), u)
                    mutated == [raci_matrix EXCEPT
                                   ![ij[1]].tasks[ij[2]].escalations =
                                       Append(@, escalation),
                                   ![ij[1]].tasks[ij[2]].escalated = TRUE]
                IN  IF escalated_roles(task) = <<>>
                    THEN /\ last' = Result("escalate", "NoResponsibleRole")
                         /\ UNCHANGED project
                    ELSE /\ project' = save_raci_matrix(project, mutated)
                         /\ last' = [op |-> "escalate", outcome |-> OK, reason |-> OK,
                                     stage |-> stage_name, task |-> task_name,
                                     escalation |-> escalation]
        /\ UNCHANGED <<now, document, versions, approvals, tasks, comments, members, txn>>

MatrixStatuses == {"in_progress", "completed"}

\* PUT /raci/task-status, update_raci_task_status lines 609-673
update_raci_task_status(stage_name, task_name, status) ==
    LET raci_matrix == raci_matrix_of(project)
        pos == find_task(raci_matrix, stage_name, task_name)
    IN  /\ IF pos = Null
           THEN /\ last' = [op |-> "task_status", outcome |-> "NotFound",
                            reason |-> "TaskNotFound"]
                /\ UNCHANGED project
           ELSE LET ij == CHOOSE h \in pos : TRUE
                    mutated == [raci_matrix EXCEPT ![ij[1]].tasks[ij[2]].status = status]
                IN  /\ project' = save_raci_matrix(project, mutated)
                    /\ last' = Result("task_status", OK)
        /\ UNCHANGED <<now, document, versions, approvals, tasks, comments, members, txn>>

InitRaci ==
    /\ now = 0
    /\ document = [doc_type |-> "PDD", current_version_id |-> Null]
    /\ versions = <<>>
    /\ approvals = <<>>
    /\ tasks = <<>>
    /\ comments = {}
    /\ members = InitMembers
    /\ project = [raci_matrix_json |-> Null]
    /\ txn = [p \in Procs |-> Idle]
    /\ last = Result("init", OK)

\* the matrix, the generator and the escalations
NextRaci ==
    \/ Tick
    \/ \E m \in Matrices : update_project_raci(m)
    \/ \E task_prefix \in Prefixes : generate_tasks_from_raci(task_prefix)
    \/ \E u \in Reviewers, t \in Targets, level \in Levels :
         escalate_raci_task(u, t[1], t[2], level)
    \/ \E t \in Targets, status \in MatrixStatuses :
         update_raci_task_status(t[1], t[2], status)

SpecRaci == InitRaci /\ [][NextRaci]_vars

\* the generator and the status changes of the generated tasks
NextRaciTasks ==
    \/ \E m \in Matrices : update_project_raci(m)
    \/ \E task_prefix \in Prefixes : generate_tasks_from_raci(task_prefix)
    \/ \E k \in 1..MaxRaciTasks, status \in PayloadStatuses : update_project_task(k, status)
    \/ \E k \in 1..MaxRaciTasks : complete_task(k)

SpecRaciTasks == InitRaci /\ [][NextRaciTasks]_vars

\* two generate requests at a time on one project
NextRaciRace ==
    \/ \E m \in Matrices : update_project_raci(m)
    \/ \E p \in Procs, task_prefix \in Prefixes : generate_begin(p, task_prefix)
    \/ \E p \in Procs :
         \/ generate_commit(p)
         \/ respond(p)

SpecRaciRace == InitRaci /\ [][NextRaciRace]_vars

----------------------------------------------------------------------------
(* Project memberships: app/routers/members.py and app/api/members.py *)

\* the users the member endpoints are called for, and their payloads
MemberUsers == {"u2", "u5"}
MemberRoles == {"Architect", "SME"}
ExpiryPayloads == {Null, At(MaxTime)}

MemberResult(op, outcome, reason) == [op |-> op, outcome |-> outcome, reason |-> reason]

\* POST /projects/{id}/members, routers/members.py invite_member lines 113-290
invite_member(u, role_code, is_temporary, expires_at) ==
    /\ IF u \in DOMAIN members
       THEN IF members[u].expires_at # Null /\ (\A t \in members[u].expires_at : t < now)
            THEN \* lines 164-172: an expired membership is reactivated
                 /\ members' = [members EXCEPT ![u] =
                       Member(role_code, is_temporary,
                              IF is_temporary /\ expires_at # Null
                              THEN expires_at ELSE Null)]
                 /\ last' = MemberResult("invite", OK, "reactivated")
            ELSE \* line 203, or the unique index on (project_id, user_id)
                 /\ last' = MemberResult("invite", BadRequest, "AlreadyMember")
                 /\ UNCHANGED members
       ELSE IF is_temporary /\ expires_at = Null
            THEN /\ last' = MemberResult("invite", BadRequest, "ExpiryRequired")
                 /\ UNCHANGED members
            ELSE /\ members' = members @@
                       (u :> Member(role_code, is_temporary,
                                    IF is_temporary THEN expires_at ELSE Null))
                 /\ last' = MemberResult("invite", OK, OK)
    /\ UNCHANGED <<now, document, versions, approvals, tasks, comments, project, txn>>

\* POST /projects/{id}/invite, api/members.py invite_member lines 22-132
api_invite_member(u, role_code, is_temporary, expires_at) ==
    /\ IF role_code \notin RoleCode
       THEN /\ last' = MemberResult("invite", BadRequest, "InvalidRole")
            /\ UNCHANGED members
       ELSE IF is_temporary /\ expires_at = Null
       THEN /\ last' = MemberResult("invite", BadRequest, "ExpiryRequired")
            /\ UNCHANGED members
       ELSE IF role_code \in {"SME", "Auditor"} /\ ~is_temporary
       THEN /\ last' = MemberResult("invite", BadRequest, "MustBeTemporary")
            /\ UNCHANGED members
       ELSE IF u \in DOMAIN members
       THEN /\ last' = MemberResult("invite", BadRequest, "AlreadyMember")
            /\ UNCHANGED members
       ELSE /\ members' = members @@ (u :> Member(role_code, is_temporary, expires_at))
            /\ last' = MemberResult("invite", OK, OK)
    /\ UNCHANGED <<now, document, versions, approvals, tasks, comments, project, txn>>

\* PUT /projects/{id}/members/{member_id}, update_member lines 293-346
update_member(u, role_code, is_temporary, expires_at) ==
    /\ IF u \in DOMAIN members
       THEN /\ members' = [members EXCEPT ![u] =
                  Member(role_code, is_temporary,
                         IF is_temporary THEN expires_at ELSE Null)]
            /\ last' = MemberResult("update_member", OK, OK)
       ELSE /\ last' = MemberResult("update_member", "NotFound", "MemberNotFound")
            /\ UNCHANGED members
    /\ UNCHANGED <<now, document, versions, approvals, tasks, comments, project, txn>>

\* POST /projects/{id}/members/{member_id}/disable, disable_member lines 349-393
disable_member(u) ==
    /\ IF u \in DOMAIN members
       THEN /\ members' = [members EXCEPT ![u].expires_at = At(now)]
            /\ last' = MemberResult("disable_member", OK, OK)
       ELSE /\ last' = MemberResult("disable_member", "NotFound", "MemberNotFound")
            /\ UNCHANGED members
    /\ UNCHANGED <<now, document, versions, approvals, tasks, comments, project, txn>>

\* the administration of the memberships alone
NextMemberAdmin ==
    \/ Tick
    \/ \E u \in MemberUsers, r \in MemberRoles, t \in BOOLEAN, e \in ExpiryPayloads :
         \/ invite_member(u, r, t, e)
         \/ api_invite_member(u, r, t, e)
         \/ update_member(u, r, t, e)
    \/ \E u \in MemberUsers : disable_member(u)

SpecMemberAdmin == InitRaci /\ [][NextMemberAdmin]_vars

(* Verification of tasks: app/api/tasks.py verify_task and
   app/routers/projects.py review_task *)

MaxActedTask == 2
ActedTasks == 1..MaxActedTask
Verifiers == {"u3", "u5"}
ReviewActions == {"APPROVE", "REJECT", "REQUEST_CHANGES"}

TaskResult(op, k, outcome, reason) ==
    [op |-> op, outcome |-> outcome, reason |-> reason, task |-> k, user |-> None]

\* POST /tasks/{task_id}/verify, lines 221-253 and the commit
verify_task(u, k) ==
    /\ k \in 1..Len(tasks)
    /\ IF tasks[k].status # "COMPLETED"
       THEN /\ last' = TaskResult("verify_task", k, BadRequest, "NotCompleted")
            /\ UNCHANGED tasks
       ELSE IF tasks[k].assigned_to_user_id = u
       THEN /\ last' = TaskResult("verify_task", k, PermissionDenied, "OwnTask")
            /\ UNCHANGED tasks
       ELSE /\ tasks' = [tasks EXCEPT ![k].status = "VERIFIED",
                                      ![k].verified_at = At(now),
                                      ![k].verified_by = u]
            /\ last' = [TaskResult("verify_task", k, OK, OK) EXCEPT !.user = u]
    /\ UNCHANGED <<now, document, versions, approvals, comments, members, project, txn>>

\* POST /projects/{id}/tasks/{task_id}/review, lines 1587-1628
review_task(u, k, action) ==
    /\ k \in 1..Len(tasks)
    /\ tasks' =
         CASE action = "APPROVE" ->
                [tasks EXCEPT ![k].status = "VERIFIED",
                              ![k].verified_at = At(now),
                              ![k].verified_by = u,
                              ![k].assigned_to_user_id =
                                  IF tasks[k].reviewer_id # None
                                  THEN tasks[k].reviewer_id ELSE @,
                              ![k].reviewer_id = None]
           [] action = "REJECT" -> [tasks EXCEPT ![k].status = "BLOCKED"]
           [] action = "REQUEST_CHANGES" -> [tasks EXCEPT ![k].status = "OPEN"]
    /\ last' = [TaskResult("review_task", k, OK, OK) EXCEPT !.user = u]
    /\ UNCHANGED <<now, document, versions, approvals, comments, members, project, txn>>

NextVerify ==
    \/ update_project_raci(MatrixB)
    \/ \E task_prefix \in Prefixes : generate_tasks_from_raci(task_prefix)
    \/ \E k \in ActedTasks : complete_task(k)
    \/ \E u \in Verifiers, k \in ActedTasks : verify_task(u, k)
    \/ \E u \in Verifiers, k \in ActedTasks, action \in ReviewActions :
         review_task(u, k, action)

SpecVerify == InitRaci /\ [][NextVerify]_vars

(* create_version as the two transactions the handlers run: the version row is
   committed first, the pointer of the document second *)

MaxCreated == 2

\* routers/documents.py lines 184-198 and api/v1/documents.py lines 139-159:
\* db.add(version); db.commit(); db.refresh(version)
create_version_insert(p, op, u, t, c) ==
    /\ txn[p] = Idle
    /\ Len(versions) < MaxCreated
    /\ versions' = Append(versions, Version(u, t, c))
    /\ txn' = [txn EXCEPT ![p] = [op |-> op, user |-> u, v |-> Len(versions) + 1,
                                  step |-> 0]]
    /\ UNCHANGED <<project, now, document, approvals, tasks, comments, members, last>>

\* routers/documents.py lines 199-202 and api/v1/documents.py lines 161-163:
\* document.current_version_id = version.id; db.commit()
create_version_point(p) ==
    /\ txn[p].op \in {"v1.create", "routers.create"}
    /\ document' = [document EXCEPT !.current_version_id = At(txn[p].v)]
    /\ txn' = [txn EXCEPT ![p] = Returned(txn[p].user, txn[p].v, 0, OK)]
    /\ last' = Result("create_version", OK)
    /\ UNCHANGED <<project, now, versions, approvals, tasks, comments, members>>

NextCreate ==
    \/ \E p \in Procs, u \in Users, t \in Templates, c \in Contents :
         \/ create_version_insert(p, "v1.create", u, t, c)
         \/ create_version_insert(p, "routers.create", u, t, c)
    \/ \E p \in Procs :
         \/ create_version_point(p)
         \/ respond(p)

SpecCreate == Init /\ [][NextCreate]_vars

\* the approval workflow on a project whose memberships get disabled
DisabledUsers == {"u3"}

NextMembers ==
    \/ Tick
    \/ \E u \in Authors, t \in Templates, c \in Contents \ {NoContent} :
         v1_create_version(u, t, c)
    \/ \E u \in Authors, v \in VersionIds :
         \/ v1_submit_for_review(u, v)
         \/ api_submit_for_review(u, v)
    \/ \E u \in Users, v \in VersionIds :
         \/ v1_approve_version(u, v)
         \/ v1_reject_version(u, v)
         \/ api_approve_version(u, v)
         \/ api_reject_version(u, v)
    \/ \E u \in DisabledUsers : disable_member(u)

SpecMembers == Init /\ [][NextMembers]_vars

----------------------------------------------------------------------------
(* Properties *)

\* the approve and the submit requests on version v, of any router
IsApprove(u, v) == v1_approve_version(u, v) \/ api_approve_version(u, v)
IsSubmit(v) ==
    \/ \E u \in Authors : v1_submit_for_review(u, v) \/ api_submit_for_review(u, v)
    \/ routers_submit_version(v)

\* every required (non-optional) step among the rows apps of version v is APPROVED
AllRequiredApproved(apps, v) ==
    \A i \in 1..Len(apps) :
        (/\ apps[i].document_version_id = v
         /\ \E s \in Range(get_approval_policy(document.doc_type)) :
               s.step_no = apps[i].step_no /\ ~s.is_optional)
        => apps[i].status = "APPROVED"

\* C1: two approve requests that read the same PENDING step never both
\* succeed: of two requests that have returned for one step, at most one
\* returned success.
C1_OneApproveWins ==
    \A p \in Procs, q \in Procs :
        (/\ p # q
         /\ txn[p].op = "returned" /\ txn[p].outcome = OK
         /\ txn[q].op = "returned" /\ txn[q].outcome = OK)
        => txn[p].step # txn[q].step

\* C2: a version in state APPROVED has every required step APPROVED.
C2_ApprovedHasAllRequired ==
    \A v \in VersionIds :
        versions[v].state = "APPROVED" => AllRequiredApproved(approvals, v)

\* C3: a successful approve after which every required step of the version
\* is APPROVED leaves the version APPROVED with locked_at set.
C3_LastApproveCompletes ==
    [][\A u \in Users, v \in VersionIds :
          (/\ IsApprove(u, v)
           /\ last'.outcome = OK
           /\ AllRequiredApproved(approvals', v))
          => (versions'[v].state = "APPROVED" /\ versions'[v].locked_at # Null)]_vars

\* C4: locked_at is set if and only if the version's state is APPROVED.
C4_LockedIffApproved ==
    \A v \in VersionIds :
        (versions[v].locked_at # Null) <=> (versions[v].state = "APPROVED")

\* C5: an operation that starts from an APPROVED version leaves its content
\* payload, its template reference and its rendered-file reference unchanged.
C5_ApprovedImmutable ==
    [][\A v \in VersionIds :
          versions[v].state = "APPROVED"
          => /\ versions'[v].content_json = versions[v].content_json
             /\ versions'[v].template_id = versions[v].template_id
             /\ versions'[v].file_object_key = versions[v].file_object_key]_vars

\* C6: a version's state changes only DRAFT -> IN_REVIEW, IN_REVIEW -> APPROVED
\* or IN_REVIEW -> DRAFT, so an APPROVED version keeps its state for ever.
C6_LifecycleTransitions ==
    [][\A v \in VersionIds :
          versions'[v].state # versions[v].state
          => <<versions[v].state, versions'[v].state>> \in
                {<<"DRAFT", "IN_REVIEW">>, <<"IN_REVIEW", "APPROVED">>,
                 <<"IN_REVIEW", "DRAFT">>}]_vars

\* C7: a submit of a DRAFT version appends exactly one PENDING step without
\* approver per policy entry, in step_no order, and leaves the version IN_REVIEW
\* with submitted_at set.
C7_SubmitCreatesSteps ==
    [][\A v \in VersionIds :
          (versions[v].state = "DRAFT" /\ IsSubmit(v))
          => LET policy == get_approval_policy(document.doc_type)
             IN  /\ approvals' =
                      approvals \o [k \in 1..Len(policy) |-> Approval(v, policy[k])]
                 /\ versions'[v].state = "IN_REVIEW"
                 /\ versions'[v].submitted_at # Null]_vars

\* C8: a submit of a version that is not DRAFT fails with InvalidTransition and
\* changes neither the version nor the approval steps nor the tasks.
C8_SubmitNonDraftFails ==
    [][\A v \in VersionIds :
          (versions[v].state # "DRAFT" /\ IsSubmit(v))
          => /\ last'.outcome = InvalidTransition
             /\ versions' = versions
             /\ approvals' = approvals
             /\ tasks' = tasks]_vars

\* C9: an approve call on an IN_REVIEW version by the version's creator fails
\* with PermissionDenied and writes no step, and no step is ever APPROVED with
\* the creator of its version as approver.
C9_AuthorCannotApprove ==
    /\ [][\A u \in Users, v \in VersionIds :
             (/\ versions[v].state = "IN_REVIEW"
              /\ u = versions[v].created_by
              /\ IsApprove(u, v))
             => (last'.outcome = PermissionDenied /\ approvals' = approvals)]_vars
    /\ [](\A i \in 1..Len(approvals) :
             approvals[i].status = "APPROVED"
             => approvals[i].approver_user_id
                  # versions[approvals[i].document_version_id].created_by)

\* the creator asked to approve a version in review and was refused by the
\* author rule
C9_AuthorRefused ==
    /\ last = Result("approve", "authorCannotApprove")
    /\ \E v \in VersionIds : versions[v].state = "IN_REVIEW"

\* C10: an approve call by a user whose membership is temporary, expired or
\* not, never succeeds and writes no step.
C10_TemporaryCannotApprove ==
    [][\A u \in DOMAIN members, v \in VersionIds :
          (members[u].is_temporary /\ IsApprove(u, v))
          => (last'.outcome # OK /\ approvals' = approvals)]_vars

\* a temporary member whose membership is still active asked to approve a
\* version in review and was refused by the temporary rule
C10_TemporaryRefused ==
    /\ last = Result("approve", "temporaryCannotApprove")
    /\ \E u \in DOMAIN members : members[u].is_temporary /\ is_active(members[u])
    /\ \E v \in VersionIds : versions[v].state = "IN_REVIEW"

\* the reasons with which a segregation-of-duties guard refuses an approve
SoDReasons == {"authorCannotApprove", "temporaryCannotApprove", "reviewerCannotApprove"}

\* C11: an approve call refused by a segregation-of-duties guard (author,
\* temporary member, prior reviewer) changes no approval step, no version and
\* no task: every step that ends with the response of such a refusal leaves
\* the approvals, the versions, the tasks and the document as they were.
C11_RefusedApproveMutatesNothing ==
    [][(last'.op = "approve" /\ last'.reason \in SoDReasons)
       => /\ approvals' = approvals
          /\ versions' = versions
          /\ tasks' = tasks
          /\ document' = document]_vars

\* a member who commented on a version in review asked to approve a step that
\* is PENDING for the member's role, and was refused as a prior reviewer
C11_ReviewerRefused ==
    /\ last = Result("approve", "reviewerCannotApprove")
    /\ \E v \in VersionIds, i \in 1..Len(approvals) :
          /\ versions[v].state = "IN_REVIEW"
          /\ approvals[i].document_version_id = v
          /\ approvals[i].status = "PENDING"
          /\ \E u \in Reviewers :
                <<v, u>> \in comments /\ approvals[i].role_required = members[u].role_code

IsReject(u, v) == v1_reject_version(u, v) \/ api_reject_version(u, v)

\* C12: a successful reject leaves the version DRAFT with the targeted step
\* REJECTED by the caller and with none of the version's steps PENDING.
C12_RejectCascades ==
    [][\A u \in Users, v \in VersionIds :
          (IsReject(u, v) /\ last'.outcome = OK)
          => /\ versions'[v].state = "DRAFT"
             /\ \E i \in StepsOf(v) :
                   /\ approvals[i].status = "PENDING"
                   /\ approvals'[i].status = "REJECTED"
                   /\ approvals'[i].approver_user_id = u
             /\ \A i \in StepsOf(v) : approvals'[i].status # "PENDING"]_vars

\* the steps of version v created by its latest submission: its last n rows,
\* n the length of the policy
CurrentCycle(apps, v) ==
    LET rows == {i \in 1..Len(apps) : apps[i].document_version_id = v}
        n == Len(get_approval_policy(document.doc_type))
    IN  {i \in rows : Cardinality({j \in rows : j > i}) < n}

\* the version carries a REJECTED step of an earlier cycle
HasOldRejected(apps, v) ==
    \E i \in 1..Len(apps) :
        /\ apps[i].document_version_id = v
        /\ i \notin CurrentCycle(apps, v)
        /\ apps[i].status = "REJECTED"

\* C13: after a rejection and a new submission, the approve that leaves every
\* step of the new cycle APPROVED makes the version APPROVED, whatever REJECTED
\* steps the earlier cycle left.
C13_ResubmitRecoverable ==
    [][\A u \in Users, v \in VersionIds :
          (/\ v1_approve_version(u, v)
           /\ last'.outcome = OK
           /\ HasOldRejected(approvals', v)
           /\ \A i \in CurrentCycle(approvals', v) : approvals'[i].status = "APPROVED")
          => versions'[v].state = "APPROVED"]_vars

\* C14: with an approve and a reject of one version running concurrently, the
\* version is never APPROVED while one of its required steps is REJECTED, and
\* once a reject of one step has returned the version to DRAFT, the commit of an
\* approve of another step does not make it APPROVED.
C14_RejectNeverMissed ==
    /\ [](\A v \in VersionIds :
             versions[v].state = "APPROVED"
             => \A i \in StepsOf(v) :
                   approvals[i].step_no \in
                       RequiredStepNos(get_approval_policy(document.doc_type))
                   => approvals[i].status # "REJECTED")
    /\ [][\A p \in Procs, q \in Procs :
             (/\ txn[p].op = "v1.approve"
              /\ txn[q].op = "returned" /\ txn[q].outcome = OK
              /\ txn[q].v = txn[p].v /\ txn[q].step # txn[p].step
              /\ approvals[txn[q].step].status = "REJECTED"
              /\ versions[txn[p].v].state = "DRAFT"
              /\ v1_approve_commit(p))
             => versions'[txn[p].v].state # "APPROVED"]_vars

\* the (stage, task, role) of every candidate of the matrix with letter R, A or C
AllCandidates(matrix) ==
    LET cands == Candidates(matrix)
    IN  [k \in 1..Len(cands) |->
            [stage |-> cands[k].stage, task |-> cands[k].task, role |-> cands[k].role]]

\* C15: a generate call that directly follows a generate call on the same
\* project (the matrix and the backlog as the first call left them, whatever
\* the options of either call) creates zero tasks, leaves the backlog as it is
\* and reports every candidate with letter R, A or C as skipped.
C15_GenerateIdempotent ==
    [][\A task_prefix \in Prefixes :
         (last.op = "generate" /\ generate_tasks_from_raci(task_prefix))
         => /\ last'.created = <<>>
            /\ tasks' = tasks
            /\ last'.skipped = AllCandidates(raci_matrix_of(project))]_vars

\* a second generate on a stored matrix has skipped all of its candidates
C15_SecondGenerateSkipsAll ==
    /\ last.op = "generate"
    /\ last.created = <<>>
    /\ Len(last.skipped) >= 3
    /\ Len(last.skipped) = Len(tasks)
    /\ project.raci_matrix_json # Null

\* a task of the matrix whose roles are {X: R, Y: A}, in either order
IsRA(raci_task) ==
    /\ Len(raci_task.roles) = 2
    /\ {raci_task.roles[1].raci_value, raci_task.roles[2].raci_value} = {"R", "A"}

RoleWith(raci_task, raci_value) ==
    (CHOOSE e \in Range(raci_task.roles) : e.raci_value = raci_value).role

\* the created_tasks entries of a result for one (stage, task), in order
CreatedFor(res, stage_name, task_name) ==
    LET es == SelectSeq(res.created,
                        LAMBDA e : e.stage = stage_name /\ e.task = task_name)
    IN  [k \in 1..Len(es) |-> [title |-> es[k].title, role |-> es[k].role]]

\* no created entry and no new row belongs to a role whose letter is I
NoTaskForInformed(matrix, res, rows) ==
    \A i \in 1..Len(matrix) : \A j \in 1..Len(matrix[i].tasks) :
        \A e \in Range(matrix[i].tasks[j].roles) :
            e.raci_value = "I"
            => /\ \A c \in Range(res.created) :
                     ~(c.stage = matrix[i].stage /\ c.task = matrix[i].tasks[j].task
                       /\ c.role = e.role)
               /\ \A r \in Range(rows) :
                     ~(r.raci_stage = matrix[i].stage
                       /\ r.raci_task_name = matrix[i].tasks[j].task
                       /\ r.required_role = e.role)

\* C16 as stated: generate creates no task for a role with letter I, and on a
\* project with no tasks a matrix task with roles {X: R, Y: A} yields exactly
\* the two created tasks "<task> Creation" (for X) and "<task> Approval" (for
\* Y), in this order.
C16_CreationThenApproval ==
    [][\A task_prefix \in Prefixes :
         generate_tasks_from_raci(task_prefix)
         => LET matrix == raci_matrix_of(project)
            IN  /\ NoTaskForInformed(matrix, last', tasks')
                /\ tasks = <<>>
                   => \A i \in 1..Len(matrix) : \A j \in 1..Len(matrix[i].tasks) :
                        LET t == matrix[i].tasks[j]
                        IN  IsRA(t)
                            => CreatedFor(last', matrix[i].stage, t.task)
                               = << [title |-> t.task \o " Creation",
                                     role |-> RoleWith(t, "R")],
                                    [title |-> t.task \o " Approval",
                                     role |-> RoleWith(t, "A")] >>]_vars

\* the title of the task of the R role: "TG n Trial" for the task name
\* "TG (TG n)", "<task> Creation" otherwise
CreationTitle(task_name) ==
    IF task_name = "TG (TG 1)" THEN "TG 1 Trial" ELSE task_name \o " Creation"

\* C16 amended: generate creates no task for a role with letter I, and on a
\* project with no tasks a matrix task with roles {X: R, Y: A} yields exactly
\* two created tasks, the task of X before the task of Y, titled with the
\* task_prefix option in front: "<prefix><task> Creation" ("<prefix>TG n Trial"
\* for a task named "TG (TG n)") and "<prefix><task> Approval".
C16_PrefixedCreationThenApproval ==
    [][\A task_prefix \in Prefixes :
         generate_tasks_from_raci(task_prefix)
         => LET matrix == raci_matrix_of(project)
            IN  /\ NoTaskForInformed(matrix, last', tasks')
                /\ tasks = <<>>
                   => \A i \in 1..Len(matrix) : \A j \in 1..Len(matrix[i].tasks) :
                        LET t == matrix[i].tasks[j]
                        IN  IsRA(t)
                            => CreatedFor(last', matrix[i].stage, t.task)
                               = << [title |-> task_prefix \o CreationTitle(t.task),
                                     role |-> RoleWith(t, "R")],
                                    [title |-> task_prefix \o t.task \o " Approval",
                                     role |-> RoleWith(t, "A")] >>]_vars

\* the matrix lists the A role of "SDD" before its R role, and the Creation
\* task was created first; no task exists for the I role of "Notes"
C16_CreationEmittedFirst ==
    /\ last.op = "generate"
    /\ Len(tasks) = Len(last.created)
    /\ project.raci_matrix_json = At(MatrixA)
    /\ \E k \in 1..Len(tasks) - 1 :
          /\ tasks[k].title = "SDD Creation" /\ tasks[k].required_role = "Developer"
          /\ tasks[k + 1].title = "SDD Approval"
          /\ tasks[k + 1].required_role = "Solution Architect"
    /\ \A k \in 1..Len(tasks) : tasks[k].required_role # "Tester"

NaturalKey(row) == <<row.raci_stage, row.raci_task_name, row.required_role>>

\* C17: with generate calls overlapping on one project, no two tasks of the
\* backlog ever have the same natural key (raci_stage, raci_task_name,
\* required_role).
C17_NoDuplicateNaturalKey ==
    \A j, k \in 1..Len(tasks) : j # k => NaturalKey(tasks[j]) # NaturalKey(tasks[k])

\* task k is set to COMPLETED by either handler
IsCompletion(k) ==
    \/ update_project_task(k, "COMPLETED")
    \/ complete_task(k) /\ last'.outcome = OK

\* task j is a sibling of task k for the same (stage, task) whose title ends
\* in the suffix
IsSibling(rows, k, j, suffix) ==
    /\ rows[j].raci_stage = rows[k].raci_stage
    /\ rows[j].raci_task_name = rows[k].raci_task_name
    /\ ends_with(rows[j].title, suffix)

\* C18: when a generated task whose title ends in " Creation" is set to
\* COMPLETED, every OPEN sibling " Review" task of the same (stage, task)
\* becomes IN_PROGRESS, and when a " Review" task is set to COMPLETED every
\* OPEN sibling " Approval" task becomes IN_PROGRESS, whatever task_prefix the
\* tasks were generated with.
C18_AutoAdvance ==
    [][\A k, j \in 1..Len(tasks) :
         (IsCompletion(k) /\ tasks[j].status = "OPEN"
          /\ \/ ends_with(tasks[k].title, " Creation") /\ IsSibling(tasks, k, j, " Review")
             \/ ends_with(tasks[k].title, " Review") /\ IsSibling(tasks, k, j, " Approval"))
         => tasks'[j].status = "IN_PROGRESS"]_vars

\* the task of the matrix an escalate call on (stage, task) finds
TaskAt(matrix, stage_name, task_name) ==
    LET ij == CHOOSE h \in find_task(matrix, stage_name, task_name) : TRUE
    IN  matrix[ij[1]].tasks[ij[2]]

IsEscalate(t) ==
    \E u \in Reviewers, level \in Levels : escalate_raci_task(u, t[1], t[2], level)

\* C19: an escalate call on a task of the matrix none of whose roles has the
\* letter R or A fails with NoResponsibleRole (HTTP 400) and changes neither
\* the stored matrix (no escalation record, no escalated mark) nor the backlog.
C19_EscalateNeedsResponsible ==
    [][\A t \in Targets :
         (/\ IsEscalate(t)
          /\ find_task(raci_matrix_of(project), t[1], t[2]) # Null
          /\ \A e \in Range(TaskAt(raci_matrix_of(project), t[1], t[2]).roles) :
                e.raci_value \notin {"R", "A"})
         => /\ last'.reason = "NoResponsibleRole"
            /\ last'.outcome = BadRequest
            /\ project' = project
            /\ tasks' = tasks]_vars

\* an escalate of "Notes", whose roles are C and I, was refused and the stored
\* task carries no escalation
C19_EscalateRefused ==
    /\ last = Result("escalate", "NoResponsibleRole")
    /\ project.raci_matrix_json # Null
    /\ find_task(raci_matrix_of(project), "Design", "Notes") # Null
    /\ TaskAt(raci_matrix_of(project), "Design", "Notes").escalations = <<>>
    /\ ~TaskAt(raci_matrix_of(project), "Design", "Notes").escalated

\* C20: a successful escalate leaves the task of the stored matrix with its
\* earlier escalations followed by exactly one new record, which names the
\* roles of the task with letter R or A and only those, and with escalated =
\* TRUE; the status of the task in the matrix and the task backlog are as
\* before.
C20_EscalateAppendsOne ==
    [][\A t \in Targets :
         (IsEscalate(t) /\ last'.outcome = OK)
         => LET before == TaskAt(raci_matrix_of(project), t[1], t[2])
                after == TaskAt(raci_matrix_of(project'), t[1], t[2])
                n == Len(before.escalations)
            IN  /\ Len(after.escalations) = n + 1
                /\ SubSeq(after.escalations, 1, n) = before.escalations
                /\ Range(after.escalations[n + 1].escalated_to_roles)
                   = {e.role : e \in {x \in Range(before.roles) :
                                          x.raci_value \in {"R", "A"}}}
                /\ after.escalated
                /\ after.status = before.status
                /\ tasks' = tasks]_vars

\* C21: when a successful approve makes a version APPROVED, every task of
\* that version that was OPEN or IN_PROGRESS becomes CLOSED with completed_at
\* set; a successful approve that leaves its version IN_REVIEW changes no task.
C21_ApproveClosesTasks ==
    [][\A u \in Users, v \in VersionIds :
         (IsApprove(u, v) /\ last'.outcome = OK)
         => IF versions'[v].state = "APPROVED"
            THEN \A k \in 1..Len(tasks) :
                    (tasks[k].related_document_version_id = v
                     /\ tasks[k].status \in {"OPEN", "IN_PROGRESS"})
                    => /\ tasks'[k].status = "CLOSED"
                       /\ tasks'[k].completed_at # Null
            ELSE tasks' = tasks]_vars

\* C30: every membership with is_temporary = TRUE has an expires_at.
C30_TemporaryHasExpiry ==
    \A u \in DOMAIN members : members[u].is_temporary => members[u].expires_at # Null

\* the user has no membership in the project, or one that has expired or was
\* disabled
NotActiveMember(u) == u \notin DOMAIN members \/ ~is_active(members[u])

\* C23: an approve or reject call by a user who is not an active member of the
\* project fails and changes no step, no version and no task: every such call
\* that succeeds or changes anything was made by an active member.
C23_OnlyActiveMembersAct ==
    [][(/\ last'.op \in {"approve", "reject"}
        /\ \/ last'.outcome = OK
           \/ approvals' # approvals
           \/ versions' # versions
           \/ tasks' # tasks)
       => \A u \in Users, v \in VersionIds :
            (IsApprove(u, v) \/ IsReject(u, v)) => ~NotActiveMember(u)]_vars

\* a member disabled while a step was PENDING for the member's role on a
\* version in review has been refused
C23_DisabledRefused ==
    /\ last \in {Result("approve", "NotMember"), Result("reject", "NotMember"),
                 Result("approve", "NoPendingStep"), Result("reject", "NoPendingStep")}
    /\ \E u \in DisabledUsers, v \in VersionIds, i \in 1..Len(approvals) :
          /\ members[u].expires_at # Null
          /\ ~is_active(members[u])
          /\ versions[v].state = "IN_REVIEW"
          /\ approvals[i].document_version_id = v
          /\ approvals[i].status = "PENDING"
          /\ approvals[i].role_required = members[u].role_code

\* the order of the task priorities
PriorityRank(p) == CASE p = "HIGH" -> 2 [] p = "MEDIUM" -> 1 [] OTHER -> 0

\* C22: a successful submit creates exactly one OPEN blocking APPROVAL task per
\* step it creates, whether or not a member holds the step's role, and the task
\* of step 1 has a higher priority than the tasks of the later steps.
C22_SubmitCreatesTasks ==
    [][(last'.op = "submit" /\ last'.outcome = OK)
       => LET new_steps == (Len(approvals) + 1)..Len(approvals')
              new_tasks == (Len(tasks) + 1)..Len(tasks')
              task_of(i) == {k \in new_tasks :
                               /\ tasks'[k].task_type = "APPROVAL"
                               /\ tasks'[k].related_document_version_id
                                    = approvals'[i].document_version_id
                               /\ tasks'[k].step_no = approvals'[i].step_no}
          IN  /\ \A i \in new_steps : Cardinality(task_of(i)) = 1
              /\ \A k \in new_tasks : tasks'[k].is_blocking /\ tasks'[k].status = "OPEN"
              /\ \A k, m \in new_tasks :
                    (tasks'[k].step_no = 1 /\ tasks'[m].step_no > 1)
                    => PriorityRank(tasks'[k].priority) > PriorityRank(tasks'[m].priority)]_vars

\* C24: whenever the completion of a task auto-advances the OPEN " Approval"
\* task of a (stage, task) to IN_PROGRESS, every " Creation" task of the same
\* (stage, task) is COMPLETED.
C24_CreationBeforeApproval ==
    [][(last'.op = "update_task" /\ last'.status = "COMPLETED")
       => \A j \in 1..Len(tasks) :
            (/\ j # last'.task
             /\ ends_with(tasks[j].title, " Approval")
             /\ tasks[j].status = "OPEN"
             /\ tasks'[j].status = "IN_PROGRESS")
            => \A c \in 1..Len(tasks) :
                 IsSibling(tasks, j, c, " Creation") => tasks'[c].status = "COMPLETED"]_vars

\* C25: no two tasks created by generate have the same title, and no two have
\* the same natural key (raci_stage, raci_task_name, required_role), also when
\* both were created by one call.
C25_NoDuplicateTitleOrKey ==
    \A j, k \in 1..Len(tasks) :
        j # k => /\ tasks[j].title # tasks[k].title
                 /\ NaturalKey(tasks[j]) # NaturalKey(tasks[k])

C26_ResolutionFinal ==
    [][/\ Len(approvals') >= Len(approvals)
       /\ \A i \in 1..Len(approvals) :
            /\ approvals'[i].status # approvals[i].status
               => /\ approvals[i].status = "PENDING"
                  /\ approvals'[i].status \in {"APPROVED", "REJECTED"}
            /\ approvals[i].status \in {"APPROVED", "REJECTED"}
               => /\ approvals'[i].status = approvals[i].status
                  /\ approvals'[i].approver_user_id = approvals[i].approver_user_id
                  /\ approvals'[i].signed_at = approvals[i].signed_at]_vars

\* C28: in every state, also between the steps of overlapping create_version
\* calls, a document that has versions has a current version, the pointer
\* refers to an existing version, and when no create_version call is running it
\* refers to the version created last.
C28_OneCurrentVersion ==
    /\ Len(versions) > 0 => document.current_version_id # Null
    /\ document.current_version_id \subseteq 1..Len(versions)
    /\ (Len(versions) > 0
        /\ \A p \in Procs : txn[p].op \notin {"v1.create", "routers.create"})
       => document.current_version_id = At(Len(versions))

\* C29: whenever a task becomes VERIFIED, through verify_task or through
\* review_task, it was COMPLETED and the verifier recorded in verified_by is
\* not the user the task was assigned to.
C29_NotVerifiedByAssignee ==
    [][\A k \in 1..Len(tasks) :
         (tasks'[k].status = "VERIFIED" /\ tasks[k].status # "VERIFIED")
         => /\ tasks[k].status = "COMPLETED"
            /\ tasks'[k].verified_by # tasks[k].assigned_to_user_id]_vars

====
